---- MODULE Spec2Model ----
(***************************************************************************)
(* BasicNextStepGenerator: transcript construction (generateMessages),     *)
(* result formatting (formatOutput) and the generation step                *)
(* (generateNextStep) of the agent loop.                                   *)
(*                                                                         *)
(* Strings are sequences of one-character strings, so that template        *)
(* literals are concatenations and "contains" is a sub-sequence test.      *)
(* An optional value (undefined / null in the source) is the empty tuple,  *)
(* a present value x is the one-element tuple <<x>>.                       *)
(***************************************************************************)
EXTENDS Integers, Sequences, FiniteSets, TLC

\* Longest step history the loop driver builds.
MaxSteps == 2

None == <<>>
Some(x) == <<x>>
IsSome(o) == o # <<>>
Get(o) == o[1]

(***************************************************************************)
(* String literals of the source.                                          *)
(***************************************************************************)
RoleHeader == <<"#", "#", " ", "R", "O", "L", "E", "\n">>
ConstraintsHeader ==
  <<"\n", "\n", "#", "#", " ", "C", "O", "N", "S", "T", "R", "A", "I", "N", "T", "S", "\n">>
ActionsHeader ==
  <<";", "\n", "\n", "#", "#", " ", "A", "V", "A", "I", "L", "A", "B", "L", "E", " ",
    "A", "C", "T", "I", "O", "N", "S", "\n">>
TaskHeader == <<"#", "#", " ", "T", "A", "S", "K", "\n">>
ErrorPrefix == <<"E", "R", "R", "O", "R", ":", "\n">>
Undefined == <<"u", "n", "d", "e", "f", "i", "n", "e", "d">>

\* `${x}` of a string-typed value that may be undefined.
Interpolate(o) == IF IsSome(o) THEN Get(o) ELSE Undefined

(***************************************************************************)
(* Values a step's output can hold, and JSON.stringify on them.            *)
(***************************************************************************)
StrValue(cs) == [kind |-> "string", chars |-> cs]
NumValue(cs) == [kind |-> "number", chars |-> cs]
FunValue == [kind |-> "function"]
ObjValue(es) == [kind |-> "object", entries |-> es]

EscapeChar(c) ==
  IF c = "\"" THEN <<"\\", "\"">>
  ELSE IF c = "\\" THEN <<"\\", "\\">>
  ELSE IF c = "\n" THEN <<"\\", "n">>
  ELSE <<c>>

RECURSIVE Escape(_)
Escape(cs) == IF cs = <<>> THEN <<>> ELSE EscapeChar(Head(cs)) \o Escape(Tail(cs))

Quote(cs) == <<"\"">> \o Escape(cs) \o <<"\"">>

RECURSIVE JsonStringify(_), JsonEntries(_, _)
\* JSON.stringify(v): None stands for the result undefined.
JsonStringify(v) ==
  CASE v.kind = "string" -> Some(Quote(v.chars))
    [] v.kind = "number" -> Some(v.chars)
    [] v.kind = "function" -> None
    [] v.kind = "object" -> Some(<<"{">> \o JsonEntries(v.entries, TRUE) \o <<"}">>)

\* The properties of an object, in insertion order; a property whose value
\* serializes to undefined is left out.
JsonEntries(es, first) ==
  IF es = <<>> THEN <<>>
  ELSE LET e == Head(es)
           j == JsonStringify(e.val)
       IN IF IsSome(j)
          THEN (IF first THEN <<>> ELSE <<",">>) \o Quote(e.key) \o <<":">> \o Get(j)
                 \o JsonEntries(Tail(es), FALSE)
          ELSE JsonEntries(Tail(es), first)

(***************************************************************************)
(* zod schemas: a schema accepts a value or not, and yields the parsed     *)
(* data (an object schema strips the keys it does not declare).            *)
(***************************************************************************)
ZString == [kind |-> "string"]
ZObject(shape) == [kind |-> "object", shape |-> shape]

\* The value of property k of an object value, None when it has none.
RECURSIVE Prop(_, _)
Prop(es, k) ==
  IF es = <<>> THEN None
  ELSE IF Head(es).key = k THEN Some(Head(es).val)
  ELSE Prop(Tail(es), k)

\* schema.safeParse(o) of an optional value o: [success, data].
\* Object schemas of the model declare primitive properties only.
ZodPrimitive(schema, o) ==
  IF IsSome(o) /\ Get(o).kind = schema.kind
  THEN [success |-> TRUE, data |-> Get(o)]
  ELSE [success |-> FALSE]

RECURSIVE ZodShape(_, _)
ZodShape(shape, es) ==
  IF shape = <<>> THEN [success |-> TRUE, data |-> <<>>]
  ELSE LET p == ZodPrimitive(Head(shape).schema, Prop(es, Head(shape).key))
           rest == ZodShape(Tail(shape), es)
       IN IF p.success /\ rest.success
          THEN [success |-> TRUE,
                data |-> <<[key |-> Head(shape).key, val |-> p.data]>> \o rest.data]
          ELSE [success |-> FALSE]

ZodParse(schema, o) ==
  IF schema.kind = "object"
  THEN IF IsSome(o) /\ Get(o).kind = "object"
       THEN LET r == ZodShape(schema.shape, Get(o).entries)
            IN IF r.success THEN [success |-> TRUE, data |-> ObjValue(r.data)]
               ELSE [success |-> FALSE]
       ELSE [success |-> FALSE]
  ELSE ZodPrimitive(schema, o)

(***************************************************************************)
(* Result formatters and their registry.                                   *)
(***************************************************************************)
StepTypes == {"search", "fetch", "read", "thought", "error"}

SearchFormatter == [id |-> "search", outputSchema |-> ZString]
FetchFormatter ==
  [id |-> "fetch", outputSchema |-> ZObject(<<[key |-> <<"u">>, schema |-> ZString]>>)]

\* resultFormatter.formatResult({ result: { summary, output } })
FormatResult(resultFormatter, result) ==
  IF resultFormatter.id = "search"
  THEN result.summary \o <<":">> \o result.output.chars
  ELSE result.summary \o <<"=">> \o Get(JsonStringify(result.output))

\* new ResultFormatterRegistry(): no formatter for any type.
EmptyRegistry == [t \in StepTypes |-> None]
ToolRegistry ==
  [t \in StepTypes |->
     IF t = "search" THEN Some(SearchFormatter)
     ELSE IF t = "fetch" THEN Some(FetchFormatter)
     ELSE None]

GetResultFormatter(registry, type) == registry[type]

(***************************************************************************)
(* Steps and errors.                                                       *)
(***************************************************************************)
Succeeded(summary, output) == [type |-> "succeeded", summary |-> summary, output |-> output]
Failed(summary) == [type |-> "failed", summary |-> summary]
Step(type, generatedText, state) ==
  [type |-> type, generatedText |-> generatedText, state |-> state]

Error(name, message) == [name |-> name, message |-> message]
ZodError == Error("ZodError", <<"s", "h", "a", "p", "e">>)

\* new NoopStep({ type, generatedText, summary })
NoopStep(type, generatedText, summary) ==
  Step(type, Some(generatedText), Succeeded(Some(summary), None))

\* new ErrorStep({ generatedText, error })
ErrorStep(generatedText, error) ==
  [type |-> "error", generatedText |-> Some(generatedText),
   state |-> [type |-> "failed", summary |-> Some(error.message), error |-> error]]

(***************************************************************************)
(* The action registry and its format.                                     *)
(***************************************************************************)
\* An action registry with the action identifiers it registers, in order.
Registry(ids) == [actions |-> ids]
SearchRegistry == Registry(<< <<"s">> >>)

RECURSIVE ActionLines(_)
ActionLines(ids) ==
  IF ids = <<>> THEN <<>> ELSE <<"-", " ">> \o Head(ids) \o <<"\n">> \o ActionLines(Tail(ids))

\* actionRegistry.getAvailableActionInstructions()
GetAvailableActionInstructions(registry) == ActionLines(registry.actions)

\* Index of the first "{" of text from position i on, 0 when there is none.
RECURSIVE FirstBrace(_, _)
FirstBrace(text, i) ==
  IF i > Len(text) THEN 0
  ELSE IF text[i] = "{" THEN i
  ELSE FirstBrace(text, i + 1)

\* actionRegistry.format.parse(text): text that does not end with "}" is
\* free text; otherwise the object starts at the first "{", the text before
\* it is the free text and the text between the braces names the action
\* (none when empty). A closing brace without an opening one is a parse error.
Parse(text) ==
  IF text = <<>> \/ text[Len(text)] # "}"
  THEN [ok |-> TRUE, value |-> [action |-> None, freeText |-> text]]
  ELSE LET b == FirstBrace(text, 1) IN
       IF b = 0 \/ b = Len(text)
       THEN [ok |-> FALSE, error |-> Error("ParseError", <<"j", "s", "o", "n">>)]
       ELSE LET id == SubSeq(text, b + 1, Len(text) - 1) IN
            [ok |-> TRUE,
             value |-> [action |-> IF id = <<>> THEN None ELSE Some(id),
                        freeText |-> SubSeq(text, 1, b - 1)]]

HasAction(registry, id) == \E i \in 1..Len(registry.actions) : registry.actions[i] = id

\* actionRegistry.getAction(id): the handler, or a lookup error.
GetAction(registry, id) ==
  IF HasAction(registry, id)
  THEN [ok |-> TRUE, action |-> id]
  ELSE [ok |-> FALSE, error |-> Error("Error", <<"n", "o", " ">> \o id)]

(***************************************************************************)
(* generateMessages and formatOutput.                                      *)
(***************************************************************************)
Message(role, content) == [role |-> role, content |-> content]

\* Mutant of LeadingMessages: the system message names the text generator.
LeadingMessagesNamingGenerator(self, run) ==
  << Message("system",
             RoleHeader \o self.role \o ConstraintsHeader \o self.constraints
               \o ActionsHeader \o GetAvailableActionInstructions(self.actionRegistry)
               \o <<self.textGenerator>>),
     Message("user", TaskHeader \o run.instructions) >>

\* Mutant of LeadingMessages: the constraints come before the role.
LeadingMessagesSwapped(self, run) ==
  << Message("system",
             RoleHeader \o self.constraints \o ConstraintsHeader \o self.role
               \o ActionsHeader \o GetAvailableActionInstructions(self.actionRegistry)),
     Message("user", TaskHeader \o run.instructions) >>

\* The two messages every transcript starts with.
LeadingMessages(self, run) ==
  << Message("system",
             RoleHeader \o self.role \o ConstraintsHeader \o self.constraints
               \o ActionsHeader \o GetAvailableActionInstructions(self.actionRegistry)),
     Message("user", TaskHeader \o run.instructions) >>

\* Mutant of FormatOutput: the result is rendered without being validated.
FormatOutputUnvalidated(resultFormatter, result) ==
  [ok |-> TRUE,
   content |-> Some(Interpolate(result.summary) \o <<":">>
                      \o Interpolate(JsonStringify(Get(result.output))))]

\* formatOutput: [ok, content], or [ok = FALSE, error] when schema.parse throws.
FormatOutput(resultFormatter, result) ==
  LET output == ZodParse(resultFormatter.outputSchema, result.output)
      summary == IsSome(result.summary)
  IN IF output.success /\ summary
     THEN [ok |-> TRUE,
           content |-> Some(FormatResult(resultFormatter,
                              [summary |-> Get(result.summary), output |-> output.data]))]
     ELSE [ok |-> FALSE, error |-> ZodError]

\* Mutant of FailedContent: a space instead of the line break.
FailedContentOneLine(stepState) ==
  Some(<<"E", "R", "R", "O", "R", ":", " ">> \o Interpolate(stepState.summary))

\* case "failed"
FailedContent(stepState) == Some(ErrorPrefix \o Interpolate(stepState.summary))

\* Mutant of DefaultContent: the whole state is serialized.
DefaultContentOfState(stepState) ==
  JsonStringify(ObjValue(<< [key |-> <<"t", "y", "p", "e">>, val |-> StrValue(<<"s">>)],
                            [key |-> <<"o", "u", "t", "p", "u", "t">>,
                             val |-> Get(stepState.output)],
                            [key |-> <<"s", "u", "m", "m", "a", "r", "y">>,
                             val |-> StrValue(Interpolate(stepState.summary))] >>))

\* no formatter registered: JSON.stringify(stepState.output)
DefaultContent(stepState) == JsonStringify(Get(stepState.output))

\* Mutant of StepContent: a succeeded step without output renders its summary.
StepContentSummaryFallback(self, step) ==
  LET stepState == step.state IN
  IF stepState.type = "failed" THEN [ok |-> TRUE, content |-> FailedContent(stepState)]
  ELSE IF ~IsSome(stepState.output) THEN [ok |-> TRUE, content |-> stepState.summary]
  ELSE LET resultFormatter == GetResultFormatter(self.resultFormatterRegistry, step.type)
       IN IF ~IsSome(resultFormatter)
          THEN [ok |-> TRUE, content |-> DefaultContent(stepState)]
          ELSE FormatOutput(Get(resultFormatter), stepState)

\* The switch on the step's state: the content of the derived message, if any.
StepContent(self, step) ==
  LET stepState == step.state IN
  IF stepState.type = "failed" THEN [ok |-> TRUE, content |-> FailedContent(stepState)]
  ELSE IF ~IsSome(stepState.output) THEN [ok |-> TRUE, content |-> None]
  ELSE LET resultFormatter == GetResultFormatter(self.resultFormatterRegistry, step.type)
       IN IF ~IsSome(resultFormatter)
          THEN [ok |-> TRUE, content |-> DefaultContent(stepState)]
          ELSE FormatOutput(Get(resultFormatter), stepState)

\* Mutant of AssistantMessages: the text of a failed step is not repeated.
AssistantMessagesOfSucceeded(step) ==
  IF IsSome(step.generatedText) /\ step.state.type = "succeeded"
  THEN <<Message("assistant", Get(step.generatedText))>>
  ELSE <<>>

\* The messages the loop body pushes for one step.
AssistantMessages(step) ==
  IF IsSome(step.generatedText)
  THEN <<Message("assistant", Get(step.generatedText))>>
  ELSE <<>>

\* Mutant of StepMessages: the derived message is pushed before the
\* assistant message.
StepMessagesDerivedFirst(self, step) ==
  LET c == StepContent(self, step) IN
  IF ~c.ok THEN c
  ELSE [ok |-> TRUE,
        msgs |-> (IF IsSome(c.content) THEN <<Message("system", Get(c.content))>>
                  ELSE <<>>)
                   \o AssistantMessages(step)]

\* Mutant of StepMessages: a step whose output fails validation is skipped.
StepMessagesSkipInvalid(self, step) ==
  LET c == StepContent(self, step) IN
  IF ~c.ok THEN [ok |-> TRUE, msgs |-> AssistantMessages(step)]
  ELSE [ok |-> TRUE,
        msgs |-> AssistantMessages(step)
                   \o (IF IsSome(c.content) THEN <<Message("system", Get(c.content))>>
                       ELSE <<>>)]

StepMessages(self, step) ==
  LET c == StepContent(self, step) IN
  IF ~c.ok THEN c
  ELSE [ok |-> TRUE,
        msgs |-> AssistantMessages(step)
                   \o (IF IsSome(c.content) THEN <<Message("system", Get(c.content))>>
                       ELSE <<>>)]

\* The for loop over completedSteps from index i on; pushed records what each
\* step pushed.
RECURSIVE StepLoop(_, _, _, _, _)
StepLoop(self, completedSteps, i, messages, pushed) ==
  IF i > Len(completedSteps)
  THEN [ok |-> TRUE, messages |-> messages, pushed |-> pushed]
  ELSE LET m == StepMessages(self, completedSteps[i]) IN
       IF ~m.ok THEN m
       ELSE StepLoop(self, completedSteps, i + 1, messages \o m.msgs, Append(pushed, m.msgs))

GenerateMessages(self, completedSteps, run) ==
  StepLoop(self, completedSteps, 1, LeadingMessages(self, run), <<>>)

(***************************************************************************)
(* Inputs: constructor arguments, runs, model texts, handler results.      *)
(***************************************************************************)
RoleArgs == {None, Some(<<"r", "o">>), Some(<<"c">>)}
ConstraintsArgs == {None, Some(<<"c">>)}
ActionRegistryArgs == {None, Some(SearchRegistry)}
TextGeneratorArgs == {None, Some("chat")}
ResultFormatterRegistryArgs == {None, Some(ToolRegistry)}

Runs == [instructions : {<<"f", "x">>}, observer : BOOLEAN]

\* Texts the model returns: free text, an object without an action after
\* free text, a registered action, an unregistered one, unparseable text.
RawTexts ==
  { <<"h", "i">>, <<"o", "k", "{", "}">>, <<"{", "s", "}">>, <<"{", "x", "}">>, <<"}">> }

\* Failures of the text generator and of a handler's createStep.
BackendError == Error("BackendError", <<"5", "0", "3">>)
HandlerErrors == { Error("Error", <<"b", "o", "o", "m">>) }

Page == ObjValue(<< [key |-> <<"u">>, val |-> StrValue(<<"a">>)],
                    [key |-> <<"x">>, val |-> NumValue(<<"7">>)] >>)

\* Steps a handler's createStep can build from the generated text.
HandlerSteps(text) ==
  { Step("search", None, Failed(Some(<<"e">>))),
    Step("search", Some(text), Succeeded(Some(<<"k">>), Some(StrValue(<<"a">>)))),
    Step("search", Some(text), Succeeded(Some(<<"k">>), Some(NumValue(<<"7">>)))),
    Step("search", Some(text), Succeeded(None, Some(StrValue(<<"a">>)))),
    Step("read", Some(text), Succeeded(Some(<<"k">>), Some(StrValue(<<"a", "\"">>)))),
    Step("read", Some(text), Succeeded(Some(<<"k">>), Some(Page))),
    Step("read", Some(text), Succeeded(Some(<<"k">>), Some(FunValue))),
    Step("read", Some(text), Succeeded(Some(<<"k">>), None)),
    Step("read", None, Succeeded(Some(<<"k">>), None)),
    Step("fetch", Some(text), Succeeded(Some(<<"k">>), Some(Page))) }

(***************************************************************************)
(* State.                                                                  *)
(***************************************************************************)
VARIABLES
  instance,          \* the generator, None before and after a failed construction
  run,               \* the agent run: instructions, observer attached or not
  completedSteps,    \* the run's step history
  pc,                \* where the generator is
  messages,          \* generateNextStep: the transcript
  pushed,            \* what each completed step pushed onto the transcript
  generatedText,     \* generateNextStep: the raw model text, once returned
  actionParameters,  \* generateNextStep: the parsed record
  step,              \* the Step generateNextStep returned
  thrown,            \* the failure the constructor or generateNextStep raised
  trace              \* calls made by the constructor or the current generateNextStep

vars == << instance, run, completedSteps, pc, messages, pushed, generatedText,
           actionParameters, step, thrown, trace >>

Init ==
  /\ instance = None
  /\ run \in Runs
  /\ completedSteps = <<>>
  /\ pc = "new"
  /\ messages = <<>>
  /\ pushed = <<>>
  /\ generatedText = None
  /\ actionParameters = None
  /\ step = None
  /\ thrown = None
  /\ trace = <<>>

(***************************************************************************)
(* The constructor.                                                        *)
(***************************************************************************)
\* Mutant of Required: the text generator is not checked.
RequiredButTextGenerator(role, constraints, actionRegistry, textGenerator) ==
  IF role = None THEN Some(Error("Error", <<"r", "o", "l", "e">>))
  ELSE IF constraints = None THEN Some(Error("Error", <<"c", "o", "n", "s", "t", "r">>))
  ELSE IF actionRegistry = None THEN Some(Error("Error", <<"a", "c", "t", "i", "o", "n">>))
  ELSE None

\* The checks of the constructor: the error it throws, if any. An argument
\* that is null or missing is None (x == null holds of both).
Required(role, constraints, actionRegistry, textGenerator) ==
  IF role = None THEN Some(Error("Error", <<"r", "o", "l", "e">>))
  ELSE IF constraints = None THEN Some(Error("Error", <<"c", "o", "n", "s", "t", "r">>))
  ELSE IF actionRegistry = None THEN Some(Error("Error", <<"a", "c", "t", "i", "o", "n">>))
  ELSE IF textGenerator = None THEN Some(Error("Error", <<"t", "e", "x", "t">>))
  ELSE None

\* this.x = x: the argument as given, undefined when it is missing.
Field(o) == IF IsSome(o) THEN Get(o) ELSE None

Constructor(role, constraints, actionRegistry, textGenerator, resultFormatterRegistry) ==
  /\ pc = "new"
  /\ trace' = << [op |-> "constructor", role |-> role, constraints |-> constraints,
                  actionRegistry |-> actionRegistry, textGenerator |-> textGenerator,
                  resultFormatterRegistry |-> resultFormatterRegistry] >>
  /\ LET missing == Required(role, constraints, actionRegistry, textGenerator) IN
     IF IsSome(missing)
     THEN /\ thrown' = missing
          /\ pc' = "invalid"
          /\ UNCHANGED instance
     ELSE /\ instance' = Some([role |-> Field(role),
                               constraints |-> Field(constraints),
                               actionRegistry |-> Field(actionRegistry),
                               textGenerator |-> Field(textGenerator),
                               resultFormatterRegistry |->
                                 IF resultFormatterRegistry = None THEN EmptyRegistry
                                 ELSE Get(resultFormatterRegistry)])
          /\ pc' = "idle"
          /\ UNCHANGED thrown
  /\ UNCHANGED << run, completedSteps, messages, pushed, generatedText,
                  actionParameters, step >>

(***************************************************************************)
(* generateNextStep.                                                       *)
(***************************************************************************)
\* run.observer?.hook(event)
Notify(r, event) == IF r.observer THEN <<event>> ELSE <<>>

\* An exception leaves generateNextStep.
Throw(error, calls) ==
  /\ thrown' = Some(error)
  /\ step' = None
  /\ trace' = trace \o calls
  /\ pc' = "thrown"

\* Mutant of Return: the step is returned without the notification.
ReturnUnnotified(s, text, calls) ==
  /\ step' = Some(s)
  /\ thrown' = None
  /\ trace' = trace \o calls
  /\ pc' = "returned"

\* Mutant of Return: the observer is told the step's own text.
ReturnNotifiesStepText(s, text, calls) ==
  /\ step' = Some(s)
  /\ thrown' = None
  /\ trace' = trace \o calls
                \o Notify(run, [op |-> "onStepGenerationFinished",
                                generatedText |-> Interpolate(s.generatedText), step |-> s])
  /\ pc' = "returned"

\* The step is determined: notify the observer and return it.
Return(s, text, calls) ==
  /\ step' = Some(s)
  /\ thrown' = None
  /\ trace' = trace \o calls
                \o Notify(run, [op |-> "onStepGenerationFinished",
                                generatedText |-> text, step |-> s])
  /\ pc' = "returned"

\* Mutant of Catch: the failure is thrown again.
CatchRethrows(error, text, calls) == Throw(error, calls)

\* Mutant of Catch: the error step loses the raw text.
CatchDropsText(error, text, calls) ==
  Return([ErrorStep(text, error) EXCEPT !.generatedText = None], text, calls)

\* catch (error): the step is an ErrorStep.
Catch(error, text, calls) == Return(ErrorStep(text, error), text, calls)

\* Mutant of Thought: the summary is the raw text.
ThoughtOfRawText(text, parameters) == NoopStep("thought", text, text)

\* The parsed record names no action: a NoopStep of type "thought".
Thought(text, parameters) == NoopStep("thought", text, parameters.freeText)

\* Build the transcript, notify the observer, call the text generator.
GenerateNextStep ==
  /\ pc = "idle"
  /\ LET m == GenerateMessages(Get(instance), completedSteps, run) IN
     IF ~m.ok
     THEN /\ Throw(m.error, <<>>)
          /\ UNCHANGED << messages, pushed >>
     ELSE /\ messages' = m.messages
          /\ pushed' = m.pushed
          /\ trace' = Notify(run, [op |-> "onStepGenerationStarted", messages |-> m.messages])
                        \o << [op |-> "generateText", messages |-> m.messages] >>
          /\ pc' = "generateText"
          /\ UNCHANGED << step, thrown >>
  /\ UNCHANGED << instance, run, completedSteps, generatedText, actionParameters >>

\* Mutant of GenerateTextFailed: the backend error becomes an error Step.
GenerateTextFailedCaught ==
  /\ pc = "generateText"
  /\ Catch(BackendError, <<>>, << [op |-> "generateText.rejected", error |-> BackendError] >>)
  /\ UNCHANGED << instance, run, completedSteps, messages, pushed, generatedText,
                  actionParameters >>

\* The text generator rejects.
GenerateTextFailed ==
  /\ pc = "generateText"
  /\ Throw(BackendError, << [op |-> "generateText.rejected", error |-> BackendError] >>)
  /\ UNCHANGED << instance, run, completedSteps, messages, pushed, generatedText,
                  actionParameters >>

\* Mutant of GenerateTextResolved: createStep is not awaited, the pending
\* result is returned as the step.
GenerateTextResolvedUnawaited(text) ==
  /\ pc = "generateText"
  /\ generatedText' = Some(text)
  /\ LET self == Get(instance)
         parsed == Parse(text)
         parse == [op |-> "parse", text |-> text]
     IN IF ~parsed.ok
        THEN /\ Throw(parsed.error, <<parse>>)
             /\ UNCHANGED actionParameters
        ELSE /\ actionParameters' = Some(parsed.value)
             /\ IF parsed.value.action = None
                THEN Return(Thought(text, parsed.value), text, <<parse>>)
                ELSE LET id == Get(parsed.value.action)
                         found == GetAction(self.actionRegistry, id)
                         getAction == [op |-> "getAction", id |-> id]
                     IN IF ~found.ok
                        THEN Catch(found.error, text, <<parse, getAction>>)
                        ELSE Return(Step("read", None, Succeeded(None, None)), text,
                                    << parse, getAction,
                                       [op |-> "createStep", action |-> id,
                                        generatedText |-> text, input |-> parsed.value] >>)
  /\ UNCHANGED << instance, run, completedSteps, messages, pushed >>

\* The text generator resolves with text: parse it and decide.
GenerateTextResolved(text) ==
  /\ pc = "generateText"
  /\ generatedText' = Some(text)
  /\ LET self == Get(instance)
         parsed == Parse(text)
         parse == [op |-> "parse", text |-> text]
     IN IF ~parsed.ok
        THEN /\ Throw(parsed.error, <<parse>>)
             /\ UNCHANGED actionParameters
        ELSE /\ actionParameters' = Some(parsed.value)
             /\ IF parsed.value.action = None
                THEN Return(Thought(text, parsed.value), text, <<parse>>)
                ELSE LET id == Get(parsed.value.action)
                         found == GetAction(self.actionRegistry, id)
                         getAction == [op |-> "getAction", id |-> id]
                     IN IF ~found.ok
                        THEN Catch(found.error, text, <<parse, getAction>>)
                        ELSE /\ trace' = trace \o << parse, getAction,
                                                     [op |-> "createStep", action |-> id,
                                                      generatedText |-> text,
                                                      input |-> parsed.value] >>
                             /\ pc' = "createStep"
                             /\ UNCHANGED << step, thrown >>
  /\ UNCHANGED << instance, run, completedSteps, messages, pushed >>

\* The handler's createStep resolves with a step.
CreateStepResolved ==
  /\ pc = "createStep"
  /\ \E s \in HandlerSteps(Get(generatedText)) :
       Return(s, Get(generatedText), << [op |-> "createStep.resolved", step |-> s] >>)
  /\ UNCHANGED << instance, run, completedSteps, messages, pushed, generatedText,
                  actionParameters >>

\* Mutant of CreateStepFailed: the error step is also pushed onto the history.
CreateStepFailedAppends(error) ==
  /\ pc = "createStep"
  /\ Catch(error, Get(generatedText), << [op |-> "createStep.rejected", error |-> error] >>)
  /\ completedSteps' = Append(completedSteps, ErrorStep(Get(generatedText), error))
  /\ UNCHANGED << instance, run, messages, pushed, generatedText, actionParameters >>

\* The handler's createStep throws or rejects.
CreateStepFailed(error) ==
  /\ pc = "createStep"
  /\ Catch(error, Get(generatedText), << [op |-> "createStep.rejected", error |-> error] >>)
  /\ UNCHANGED << instance, run, completedSteps, messages, pushed, generatedText,
                  actionParameters >>

\* The loop driver appends the returned step to the history; the next
\* iteration starts from there.
AppendStep ==
  /\ pc = "returned"
  /\ Len(completedSteps) < MaxSteps
  /\ completedSteps' = Append(completedSteps, Get(step))
  /\ pc' = "idle"
  /\ messages' = <<>>
  /\ pushed' = <<>>
  /\ generatedText' = None
  /\ actionParameters' = None
  /\ step' = None
  /\ thrown' = None
  /\ trace' = <<>>
  /\ UNCHANGED << instance, run >>

Next ==
  \/ \E role \in RoleArgs, constraints \in ConstraintsArgs,
        actionRegistry \in ActionRegistryArgs, textGenerator \in TextGeneratorArgs,
        resultFormatterRegistry \in ResultFormatterRegistryArgs :
       Constructor(role, constraints, actionRegistry, textGenerator, resultFormatterRegistry)
  \/ GenerateNextStep
  \/ GenerateTextFailed
  \/ \E text \in RawTexts : GenerateTextResolved(text)
  \/ CreateStepResolved
  \/ \E error \in HandlerErrors : CreateStepFailed(error)
  \/ AppendStep

Spec == Init /\ [][Next]_vars

(***************************************************************************)
(* Observers whose onStepGenerationStarted hook does more than return: it  *)
(* may throw, and it may push a message onto the array it is handed, which *)
(* is the array generateNextStep passes on to the text generator.          *)
(***************************************************************************)
HookBehaviours == {"returns", "throws", "pushes"}
HookError == Error("Error", <<"h", "o", "o", "k">>)
HookMessage == Message("system", <<"!">>)

\* The messages array after the hook ran on it.
AfterStartedHook(behaviour, built) ==
  IF behaviour = "pushes" THEN Append(built, HookMessage) ELSE built

\* generateNextStep up to the model call, with a hook of the given behaviour.
GenerateNextStepHooked(behaviour) ==
  /\ pc = "idle"
  /\ LET m == GenerateMessages(Get(instance), completedSteps, run) IN
     IF ~m.ok
     THEN /\ Throw(m.error, <<>>)
          /\ UNCHANGED << messages, pushed >>
     ELSE LET started == [op |-> "onStepGenerationStarted", messages |-> m.messages]
              array == IF run.observer THEN AfterStartedHook(behaviour, m.messages)
                       ELSE m.messages
          IN /\ messages' = array
             /\ pushed' = m.pushed
             /\ IF run.observer /\ behaviour = "throws"
                THEN Throw(HookError, <<started>>)
                ELSE /\ trace' = Notify(run, started)
                                   \o << [op |-> "generateText", messages |-> array] >>
                     /\ pc' = "generateText"
                     /\ UNCHANGED << step, thrown >>
  /\ UNCHANGED << instance, run, completedSteps, generatedText, actionParameters >>

NextHooked ==
  \/ \E role \in RoleArgs, constraints \in ConstraintsArgs,
        actionRegistry \in ActionRegistryArgs, textGenerator \in TextGeneratorArgs,
        resultFormatterRegistry \in ResultFormatterRegistryArgs :
       Constructor(role, constraints, actionRegistry, textGenerator, resultFormatterRegistry)
  \/ \E behaviour \in HookBehaviours : GenerateNextStepHooked(behaviour)
  \/ GenerateTextFailed
  \/ \E text \in RawTexts : GenerateTextResolved(text)
  \/ CreateStepResolved
  \/ \E error \in HandlerErrors : CreateStepFailed(error)
  \/ AppendStep

SpecHooked == Init /\ [][NextHooked]_vars

(***************************************************************************)
(* Properties.                                                             *)
(***************************************************************************)
\* The operations of the current call's trace, in order.
Ops == [i \in 1..Len(trace) |-> trace[i].op]
Called(op) == \E i \in 1..Len(trace) : trace[i].op = op
Calls(op) == Cardinality({i \in 1..Len(trace) : trace[i].op = op})

\* The parsed record names an action the registry does not have.
UnknownAction ==
  /\ actionParameters # None
  /\ Get(actionParameters).action # None
  /\ ~HasAction(Get(instance).actionRegistry, Get(Get(actionParameters).action))

\* C1: when the parsed record names an action identifier that is not in the
\* action registry, generateNextStep has returned (not thrown) an error Step
\* whose generatedText is the raw model text.
C1_UnknownActionReturnsErrorStep ==
  UnknownAction =>
    /\ pc = "returned"
    /\ thrown = None
    /\ step # None
    /\ Get(step).type = "error"
    /\ Get(step).state.type = "failed"
    /\ Get(step).generatedText = generatedText
    /\ generatedText # None

C1_Witness ==
  /\ UnknownAction
  /\ pc = "returned"
  /\ Get(generatedText) = <<"{", "x", "}">>
  /\ Get(step).type = "error"

\* C2: whenever the handler's createStep rejects or throws, generateNextStep
\* has returned an error Step that carries that failure and the raw model
\* text; nothing is thrown to the caller.
C2_CreateStepFailureReturnsErrorStep ==
  \A i \in 1..Len(trace) :
    trace[i].op = "createStep.rejected" =>
      /\ pc = "returned"
      /\ thrown = None
      /\ step # None
      /\ Get(step).type = "error"
      /\ Get(step).state.type = "failed"
      /\ Get(step).state.error = trace[i].error
      /\ Get(step).state.summary = Some(trace[i].error.message)
      /\ Get(step).generatedText = generatedText
      /\ generatedText # None

C2_Witness ==
  /\ Called("createStep.rejected")
  /\ pc = "returned"
  /\ Get(step).type = "error"
  /\ Get(step).state.summary = Some(<<"b", "o", "o", "m">>)

\* The observer is attached and the call has reached the model call.
ObservedModelCall == run.observer /\ Called("generateText")

\* onStepGenerationStarted ran exactly once, and before the model call.
StartedOnceBeforeModelCall ==
  /\ Calls("onStepGenerationStarted") = 1
  /\ Calls("generateText") = 1
  /\ trace[1].op = "onStepGenerationStarted"
  /\ trace[2].op = "generateText"

\* onStepGenerationFinished ran exactly once, last, with the determined step.
FinishedOnceAfterStep ==
  /\ Calls("onStepGenerationFinished") = 1
  /\ trace[Len(trace)].op = "onStepGenerationFinished"
  /\ step # None
  /\ trace[Len(trace)].step = Get(step)

\* C3 as stated: every call that reaches the model call, once it is over,
\* has invoked onStepGenerationStarted exactly once before the model call and
\* onStepGenerationFinished exactly once after the Step was determined.
C3_Original ==
  (ObservedModelCall /\ pc \in {"returned", "thrown"}) =>
    (StartedOnceBeforeModelCall /\ FinishedOnceAfterStep)

\* C3: every call (observer attached) that reaches the model call has invoked
\* onStepGenerationStarted exactly once, before the model call; if the call
\* returns a Step (thought, action or error Step), onStepGenerationFinished
\* was invoked exactly once, after the Step was determined and with it; it is
\* not invoked before that, nor when the model call or the parse fails.
C3_HooksAroundReturnedStep ==
  ObservedModelCall =>
    /\ StartedOnceBeforeModelCall
    /\ (pc = "returned" => FinishedOnceAfterStep)
    /\ (pc # "returned" => Calls("onStepGenerationFinished") = 0)

C3_Witness ==
  /\ ObservedModelCall
  /\ pc = "returned"
  /\ Get(step).type = "error"
  /\ Ops[Len(trace)] = "onStepGenerationFinished"

\* C4: when the parsed record has no action identifier, generateNextStep has
\* returned a Step of type "thought" whose summary is the parser's free text
\* and whose generatedText is the raw model text, and no action handler was
\* looked up or invoked.
C4_NoActionReturnsThought ==
  (actionParameters # None /\ Get(actionParameters).action = None) =>
    /\ pc = "returned"
    /\ thrown = None
    /\ step # None
    /\ Get(step).type = "thought"
    /\ Get(step).state.summary = Some(Get(actionParameters).freeText)
    /\ Get(step).generatedText = generatedText
    /\ generatedText # None
    /\ ~Called("getAction")
    /\ ~Called("createStep")

C4_Witness ==
  /\ pc = "returned"
  /\ generatedText = Some(<<"o", "k", "{", "}">>)
  /\ Get(actionParameters).action = None
  /\ Get(step).state.summary = Some(<<"o", "k">>)

\* s occurs in text at position i.
At(text, s, i) == i >= 1 /\ i + Len(s) - 1 <= Len(text) /\ SubSeq(text, i, i + Len(s) - 1) = s
Contains(text, s) == \E i \in 1..(Len(text) + 1) : At(text, s, i)

\* a, b and c occur in text one after the other, without overlap.
ContainsInOrder(text, a, b, c) ==
  \E i \in 1..(Len(text) + 1) :
    /\ At(text, a, i)
    /\ \E j \in (i + Len(a))..(Len(text) + 1) :
         /\ At(text, b, j)
         /\ \E k \in (j + Len(b))..(Len(text) + 1) : At(text, c, k)

RECURSIVE Flatten(_)
Flatten(ss) == IF ss = <<>> THEN <<>> ELSE Head(ss) \o Flatten(Tail(ss))

\* generateMessages has returned a transcript in the current call.
Built == messages # <<>>

\* C5: a transcript starts with a system message containing the role, the
\* constraints and the registry's action instructions in that order, then a
\* user message containing the task instructions; what the completed steps
\* contribute is everything from the third message on.
C5_LeadingMessages ==
  Built =>
    /\ Len(messages) >= 2
    /\ messages[1].role = "system"
    /\ ContainsInOrder(messages[1].content, Get(instance).role, Get(instance).constraints,
                       GetAvailableActionInstructions(Get(instance).actionRegistry))
    /\ messages[2].role = "user"
    /\ Contains(messages[2].content, run.instructions)
    /\ Len(pushed) = Len(completedSteps)
    /\ SubSeq(messages, 3, Len(messages)) = Flatten(pushed)

C5_Witness ==
  /\ Built
  /\ Len(completedSteps) = 2
  /\ Len(messages) = 6
  /\ Get(instance).role = <<"r", "o">>

\* C6: a completed step that is failed with summary S and has no
\* generatedText contributes exactly one message, a system message whose
\* content is "ERROR:\n" followed by S.
C6_FailedStepMessage ==
  Built =>
    \A i \in 1..Len(completedSteps) :
      LET s == completedSteps[i] IN
      (s.state.type = "failed" /\ s.state.summary # None /\ s.generatedText = None) =>
        pushed[i] = << [role |-> "system",
                        content |-> <<"E", "R", "R", "O", "R", ":", "\n">>
                                      \o Get(s.state.summary)] >>

C6_Witness ==
  /\ Built
  /\ \E i \in 1..Len(completedSteps) :
       /\ completedSteps[i].state.type = "failed"
       /\ completedSteps[i].generatedText = None
       /\ pushed[i][1].content = <<"E", "R", "R", "O", "R", ":", "\n", "e">>

\* Step i is succeeded with an output and a summary.
HasOutput(i) ==
  /\ completedSteps[i].state.type = "succeeded"
  /\ completedSteps[i].state.output # None
  /\ completedSteps[i].state.summary # None

Formatter(i) == GetResultFormatter(Get(instance).resultFormatterRegistry, completedSteps[i].type)

\* The derived system message of step i: the last message it pushed.
Derived(i) == pushed[i][Len(pushed[i])]

\* C7 as stated: a succeeded step with output and summary whose type has no
\* formatter contributes a system message that serializes both the summary
\* and the output (outputs JSON cannot serialize are left aside).
C7_Original ==
  Built =>
    \A i \in 1..Len(completedSteps) :
      (HasOutput(i) /\ Formatter(i) = None
         /\ JsonStringify(Get(completedSteps[i].state.output)) # None) =>
        /\ pushed[i] # <<>>
        /\ Derived(i).role = "system"
        /\ Contains(Derived(i).content, Get(completedSteps[i].state.summary))
        /\ Contains(Derived(i).content,
                    Get(JsonStringify(Get(completedSteps[i].state.output))))

\* C7: a succeeded step with output and summary whose type has no formatter
\* contributes, after its assistant message, a system message whose content
\* is JSON.stringify of the output alone (the summary is not part of it), and
\* no system message when JSON.stringify yields undefined.
C7_DefaultSerializesOutputOnly ==
  Built =>
    \A i \in 1..Len(completedSteps) :
      (HasOutput(i) /\ Formatter(i) = None) =>
        LET s == completedSteps[i]
            json == JsonStringify(Get(s.state.output))
        IN /\ pushed[i] = AssistantMessages(s)
                            \o (IF json = None THEN <<>>
                                ELSE << [role |-> "system", content |-> Get(json)] >>)
           /\ s.state.output = Some(StrValue(<<"a", "\"">>)) =>
                Derived(i).content = <<"\"", "a", "\\", "\"", "\"">>

C7_Witness ==
  /\ Built
  /\ \E i \in 1..Len(completedSteps) :
       /\ HasOutput(i)
       /\ Formatter(i) = None
       /\ completedSteps[i].state.output = Some(Page)
       /\ Derived(i) = [role |-> "system",
                        content |-> <<"{", "\"", "u", "\"", ":", "\"", "a", "\"", ",",
                                      "\"", "x", "\"", ":", "7", "}">>]

\* C8: a succeeded step with an output whose type has a registered formatter
\* contributes a system message equal to the formatter's formatResult of the
\* validated {summary, output}; a transcript holding it exists only if
\* {output, summary} conforms to the formatter's declared shape.
C8_FormatterMessage ==
  Built =>
    \A i \in 1..Len(completedSteps) :
      (completedSteps[i].state.type = "succeeded" /\ completedSteps[i].state.output # None
         /\ Formatter(i) # None) =>
        LET s == completedSteps[i]
            valid == ZodParse(Get(Formatter(i)).outputSchema, s.state.output)
        IN /\ valid.success
           /\ s.state.summary # None
           /\ pushed[i] # <<>>
           /\ Derived(i) = [role |-> "system",
                            content |-> FormatResult(Get(Formatter(i)),
                                                     [summary |-> Get(s.state.summary),
                                                      output |-> valid.data])]
           /\ Len(pushed[i]) = Len(AssistantMessages(s)) + 1

C8_Witness ==
  /\ Built
  /\ \E i \in 1..Len(completedSteps) :
       /\ completedSteps[i].type = "fetch"
       /\ Formatter(i) # None
       /\ completedSteps[i].state.output = Some(Page)
       /\ Derived(i).content = <<"k", "=", "{", "\"", "u", "\"", ":", "\"", "a", "\"", "}">>

\* Some completed step's output violates the shape its formatter declares.
ShapeViolated ==
  \E i \in 1..Len(completedSteps) :
    /\ completedSteps[i].state.type = "succeeded"
    /\ completedSteps[i].state.output # None
    /\ Formatter(i) # None
    /\ ~ZodParse(Get(Formatter(i)).outputSchema, completedSteps[i].state.output).success

\* C9: when a completed succeeded step's output violates the shape of the
\* formatter registered for its type, a call of generateNextStep has failed
\* with the validation error: no transcript was produced, no hook or model
\* call was made and no Step (in particular no error Step) was returned.
C9_ShapeViolationThrows ==
  (ShapeViolated /\ pc \notin {"new", "invalid", "idle"}) =>
    /\ pc = "thrown"
    /\ thrown = Some(Error("ZodError", <<"s", "h", "a", "p", "e">>))
    /\ messages = <<>>
    /\ pushed = <<>>
    /\ step = None
    /\ trace = <<>>

C9_Witness ==
  /\ ShapeViolated
  /\ pc = "thrown"
  /\ Get(thrown).name = "ZodError"
  /\ completedSteps[Len(completedSteps)].state.output = Some(NumValue(<<"7">>))

\* The text generator failed, or it returned text the format cannot parse.
ModelOrParseFailed ==
  \/ Called("generateText.rejected")
  \/ generatedText # None /\ ~Parse(Get(generatedText)).ok

\* C10: if the text generator fails or format.parse fails, generateNextStep
\* has thrown that failure: no Step is returned and no action handler was
\* looked up or invoked.
C10_ModelOrParseFailureAborts ==
  ModelOrParseFailed =>
    /\ pc = "thrown"
    /\ thrown # None
    /\ Get(thrown).name \in {"BackendError", "ParseError"}
    /\ step = None
    /\ ~Called("getAction")
    /\ ~Called("createStep")
    /\ ~Called("onStepGenerationFinished")

C10_Witness ==
  /\ pc = "thrown"
  /\ generatedText = Some(<<"}">>)
  /\ Get(thrown).name = "ParseError"
  /\ Called("parse")

\* C11: whatever the observer's onStepGenerationStarted hook does, the text
\* generator is then invoked, and with exactly the transcript that
\* generateMessages built and that was handed to the hook.
C11_StartedHookNeverAltersModelCall ==
  \A i \in 1..Len(trace) :
    trace[i].op = "onStepGenerationStarted" =>
      \E j \in (i + 1)..Len(trace) :
        /\ trace[j].op = "generateText"
        /\ trace[j].messages = trace[i].messages

\* Generators and runs that agree with the current ones on role, constraints,
\* actionRegistry and run.instructions (and are given the same completedSteps)
\* but may differ in what is left: text generator, observer and, when
\* anyRegistry, the result formatter registry.
Agreeing(anyRegistry) ==
  { [self |-> [Get(instance) EXCEPT !.textGenerator = g, !.resultFormatterRegistry = r],
     run |-> [run EXCEPT !.observer = o]] :
      g \in {"chat", "other"}, o \in BOOLEAN,
      r \in IF anyRegistry THEN {EmptyRegistry, ToolRegistry}
            ELSE {Get(instance).resultFormatterRegistry} }

\* Every generateMessages invocation of these generators yields the transcript
\* of the current call.
SameTranscript(invocations) ==
  \A v \in invocations :
    LET m == GenerateMessages(v.self, completedSteps, v.run) IN
    m.ok /\ m.messages = messages

\* C12 as stated: an invocation of generateMessages that agrees with the
\* current one on role, constraints, actionRegistry, completedSteps and
\* run.instructions produces the same message sequence.
C12_Original == Built => SameTranscript(Agreeing(TRUE))

\* C12: an invocation of generateMessages that agrees with the current one on
\* role, constraints, actionRegistry, completedSteps, run.instructions and
\* also on resultFormatterRegistry produces the same message sequence,
\* whatever its text generator and observer.
C12_TranscriptDeterminedBySixInputs == Built => SameTranscript(Agreeing(FALSE))

C12_Witness ==
  /\ Built
  /\ Len(completedSteps) = 2
  /\ Get(instance).resultFormatterRegistry = ToolRegistry
  /\ SameTranscript(Agreeing(FALSE))
  /\ ~SameTranscript(Agreeing(TRUE))

\* C13: every Step generateNextStep returns carries generatedText, equal to
\* the raw model text of the call, on the thought path, the error path and
\* the path where the handler's createStep builds the Step.
C13_ReturnedStepCarriesGeneratedText ==
  pc = "returned" =>
    /\ generatedText # None
    /\ Get(step).generatedText = generatedText

\* The constructor has just run; its arguments are trace[1].
Constructed == trace # <<>> /\ trace[1].op = "constructor"

\* One of the four required arguments is null or missing.
RequiredMissing ==
  \/ trace[1].role = None
  \/ trace[1].constraints = None
  \/ trace[1].actionRegistry = None
  \/ trace[1].textGenerator = None

\* C14: constructing the generator without role, constraints, actionRegistry
\* or textGenerator throws at construction and leaves no instance, so that
\* neither generateMessages nor generateNextStep runs; with the four present
\* construction succeeds, and a missing resultFormatterRegistry becomes the
\* empty registry.
C14_ConstructorValidates ==
  /\ (Constructed /\ RequiredMissing) =>
       /\ pc = "invalid"
       /\ instance = None
       /\ thrown # None
  /\ (Constructed /\ ~RequiredMissing) =>
       /\ pc = "idle"
       /\ instance # None
       /\ thrown = None
       /\ Get(instance).resultFormatterRegistry =
            IF trace[1].resultFormatterRegistry = None THEN EmptyRegistry
            ELSE Get(trace[1].resultFormatterRegistry)
  /\ instance = None =>
       /\ pc \in {"new", "invalid"}
       /\ messages = <<>>
       /\ step = None
       /\ ~Called("generateText")
  /\ pc = "invalid" => (Constructed /\ RequiredMissing)

C14_Witness ==
  /\ Constructed
  /\ pc = "invalid"
  /\ trace[1].role # None
  /\ trace[1].constraints # None
  /\ trace[1].actionRegistry # None
  /\ trace[1].textGenerator = None
  /\ trace[1].resultFormatterRegistry = None
  /\ instance = None

\* Number of messages the steps before step i pushed.
RECURSIVE PushedBefore(_)
PushedBefore(i) == IF i <= 1 THEN 0 ELSE PushedBefore(i - 1) + Len(pushed[i - 1])

\* First and last position in the transcript of what step i pushed.
First(i) == 2 + PushedBefore(i) + 1
Last(i) == 2 + PushedBefore(i) + Len(pushed[i])

\* C15: after the two leading messages the transcript follows the step
\* history: the messages of step i occupy consecutive positions, before those
\* of every later step; a step with generatedText contributes first an
\* assistant message with that text, whatever its state, and the system
\* message derived from its state, if any, comes right after it.
C15_TranscriptFollowsHistory ==
  Built =>
    /\ Len(pushed) = Len(completedSteps)
    /\ Len(messages) = 2 + PushedBefore(Len(pushed) + 1)
    /\ \A i \in 1..Len(completedSteps) :
         LET s == completedSteps[i] IN
         /\ \A k \in 1..Len(pushed[i]) : messages[First(i) + k - 1] = pushed[i][k]
         /\ \A j \in (i + 1)..Len(completedSteps) : Last(i) < First(j)
         /\ Len(pushed[i]) <= 2
         /\ s.generatedText # None =>
              /\ Len(pushed[i]) >= 1
              /\ messages[First(i)] = [role |-> "assistant", content |-> Get(s.generatedText)]
              /\ Len(pushed[i]) = 2 => messages[First(i) + 1].role = "system"
         /\ s.generatedText = None =>
              /\ Len(pushed[i]) <= 1
              /\ Len(pushed[i]) = 1 => messages[First(i)].role = "system"

C15_Witness ==
  /\ Built
  /\ Len(completedSteps) = 2
  /\ Len(pushed[1]) = 2
  /\ Len(pushed[2]) = 2
  /\ completedSteps[1].state.type = "failed"
  /\ completedSteps[2].state.type = "succeeded"
  /\ messages[3].role = "assistant" /\ messages[4].role = "system"
  /\ messages[5].role = "assistant" /\ messages[6].role = "system"

\* C16: a completed step that is succeeded with absent output contributes no
\* derived system message: only the assistant message of its generatedText,
\* and nothing at all without generatedText.
C16_NoOutputNoDerivedMessage ==
  Built =>
    \A i \in 1..Len(completedSteps) :
      LET s == completedSteps[i] IN
      (s.state.type = "succeeded" /\ s.state.output = None) =>
        pushed[i] = IF s.generatedText = None THEN <<>>
                    ELSE << [role |-> "assistant", content |-> Get(s.generatedText)] >>

C16_Witness ==
  /\ Built
  /\ Len(completedSteps) = 2
  /\ completedSteps[1].state.type = "succeeded" /\ completedSteps[1].state.output = None
  /\ completedSteps[1].generatedText = None
  /\ completedSteps[2].state.type = "succeeded" /\ completedSteps[2].state.output = None
  /\ completedSteps[2].type = "thought"
  /\ Len(messages) = 3

\* The step appended last is an error Step of generateNextStep, and the next
\* call has begun.
NextCallAfterErrorStep ==
  /\ completedSteps # <<>>
  /\ completedSteps[Len(completedSteps)].type = "error"
  /\ pc # "idle"

\* C17: once an error Step (unknown action or failed createStep) has been
\* appended to the history, the next generateNextStep call builds a
\* transcript that ends with the step's raw model text as an assistant
\* message followed by a system message "ERROR:\n" plus the failure summary,
\* and hands that transcript to the text generator.
C17_ErrorStepFedBack ==
  NextCallAfterErrorStep =>
    LET n == Len(completedSteps)
        s == completedSteps[n]
        fed == << [role |-> "assistant", content |-> Get(s.generatedText)],
                  [role |-> "system",
                   content |-> <<"E", "R", "R", "O", "R", ":", "\n">>
                                 \o Get(s.state.summary)] >>
    IN /\ s.generatedText # None
       /\ s.state.type = "failed"
       /\ s.state.summary = Some(s.state.error.message)
       /\ Built
       /\ pushed[n] = fed
       /\ SubSeq(messages, Len(messages) - 1, Len(messages)) = fed
       /\ thrown # Some(ZodError)
       /\ \E i \in 1..Len(trace) :
            trace[i].op = "generateText" /\ trace[i].messages = messages

C17_Witness ==
  /\ NextCallAfterErrorStep
  /\ pc = "generateText"
  /\ Len(completedSteps) = 2
  /\ completedSteps[2].state.summary = Some(<<"b", "o", "o", "m">>)
  /\ messages[Len(messages)].content =
       <<"E", "R", "R", "O", "R", ":", "\n", "b", "o", "o", "m">>
  /\ messages[Len(messages) - 1] = [role |-> "assistant", content |-> <<"{", "s", "}">>]

\* Position in the trace of the only call of op, 0 when there is none.
Position(op) == IF Called(op) THEN CHOOSE i \in 1..Len(trace) : trace[i].op = op ELSE 0

\* createStep has resolved or rejected.
CreateStepOver == Called("createStep.resolved") \/ Called("createStep.rejected")

\* C18: one generateNextStep invocation makes at most one model call and at
\* most one createStep call, in sequence: the model call is made with the
\* finished transcript, createStep is called only after the model text has
\* arrived and has been parsed, a Step is returned only after createStep has
\* resolved or rejected, and while the model call is in flight nothing else
\* of the run has been started.
C18_OneCallAtATime ==
  /\ Calls("generateText") <= 1
  /\ Calls("createStep") <= 1
  /\ Called("generateText") =>
       /\ Built
       /\ trace[Position("generateText")].messages = messages
  /\ Called("createStep") =>
       /\ generatedText # None
       /\ actionParameters # None
       /\ 0 < Position("generateText")
       /\ Position("generateText") < Position("parse")
       /\ Position("parse") < Position("getAction")
       /\ Position("getAction") < Position("createStep")
       /\ trace[Position("createStep")].generatedText = Get(generatedText)
  /\ (Called("createStep") /\ ~CreateStepOver) => (pc = "createStep" /\ step = None)
  /\ CreateStepOver =>
       /\ Position("createStep") > 0
       /\ Position("createStep") < Position("createStep.resolved") + Position("createStep.rejected")
       /\ pc = "returned"
  /\ pc = "generateText" =>
       /\ trace[Len(trace)].op = "generateText"
       /\ generatedText = None
       /\ step = None

C18_Witness ==
  /\ pc = "returned"
  /\ Ops[Len(trace)] = "createStep.resolved"
  /\ Position("generateText") = 1
  /\ Position("createStep") = 4
  /\ Get(step).type = "fetch"

\* C19: no step of the generator changes the step history: from construction
\* to the return or failure of generateNextStep completedSteps stays what it
\* was, and the produced Step is not in it until the loop driver, which acts
\* on a returned Step only, appends it.
C19_GeneratorLeavesHistory ==
  [][pc # "returned" => completedSteps' = completedSteps]_vars

C19_Witness ==
  /\ pc = "returned"
  /\ Len(completedSteps) = 2
  /\ Called("createStep.rejected")
  /\ Get(step).type = "error"
  /\ completedSteps[2].type = "thought"

\* C20: when onStepGenerationStarted was invoked and generateNextStep has
\* returned a Step, onStepGenerationFinished was invoked once, with that Step
\* and the call's raw model text; a call that is over with a started but no
\* finished notification has failed; and a call that failed with the
\* validation error of transcript construction invoked neither hook and made
\* no model call.
C20_StartedUnmatchedOnlyOnFailure ==
  /\ (pc = "returned" /\ Called("onStepGenerationStarted")) =>
       /\ Calls("onStepGenerationFinished") = 1
       /\ trace[Position("onStepGenerationFinished")].step = Get(step)
       /\ trace[Position("onStepGenerationFinished")].generatedText = Get(generatedText)
       /\ Position("onStepGenerationStarted") < Position("onStepGenerationFinished")
  /\ (Called("onStepGenerationStarted") /\ ~Called("onStepGenerationFinished")) =>
       /\ pc \in {"generateText", "createStep", "thrown"}
       /\ step = None
  /\ (thrown # None /\ Get(thrown).name = "ZodError") =>
       /\ pc = "thrown"
       /\ ~Called("onStepGenerationStarted")
       /\ ~Called("onStepGenerationFinished")
       /\ ~Called("generateText")

C20_Witness ==
  /\ pc = "returned"
  /\ Called("onStepGenerationStarted")
  /\ Get(step).generatedText = None
  /\ trace[Len(trace)].op = "onStepGenerationFinished"
  /\ trace[Len(trace)].generatedText = <<"{", "s", "}">>
  /\ trace[Len(trace)].step = Get(step)

====
